---- MODULE Spec2Model ----
(***************************************************************************)
(* PAJ-SM+ eligibility evaluator (src/src/services/eligibilityService.js)  *)
(* and stage progression engine (src/src/services/pajsmService.js) over    *)
(* the pajsm_participants table.                                           *)
(*                                                                         *)
(* JavaScript values of the request body are written as strings:           *)
(* "true" / "false" are the booleans, "undefined" an absent field, "yes"   *)
(* a truthy value that is not the boolean true.  SQL NULL is "null" for a  *)
(* text or boolean column and NULL_TS for a timestamp column.              *)
(***************************************************************************)
EXTENDS Integers, Sequences, FiniteSets, TLC

\* ------------------------------------------------------------------ bounds

\* The clock takes the values 1..MaxTime.
MaxTime == 2

\* advanceStage calls counted per participant before the count stops.
MaxAdvCalls == 7

\* Rows the pajsm_intervention_plans and pajsm_follow_ups tables take.
MaxPlans == 1
MaxFollowUps == 1

\* ------------------------------------------------------- config/pajsm.js

VULNERABILITIES ==
  { "mental_health_disorder", "intellectual_disability", "asd",
    "substance_use_disorder", "traumatic_brain_injury" }

VALID_VULNERABILITIES == VULNERABILITIES

EXCLUSIONS ==
  << "death_resulting_offences", "attempted_or_conspired_death_offences",
     "superior_court_jurisdiction", "sexual_offences_against_minors",
     "domestic_violence", "sexual_violence", "elder_abuse",
     "transport_offences_causing_injury", "terrorism",
     "criminal_organization", "firearms_weapons_by_indictment" >>

\* As ABSOLUTE_EXCLUSIONS, with domestic_violence listed in it as well
ABSOLUTE_EXCLUSIONS_WithDomestic ==
  << "death_resulting_offences", "attempted_or_conspired_death_offences",
     "superior_court_jurisdiction", "sexual_offences_against_minors",
     "domestic_violence", "transport_offences_causing_injury", "terrorism",
     "criminal_organization", "firearms_weapons_by_indictment" >>

ABSOLUTE_EXCLUSIONS ==
  << "death_resulting_offences", "attempted_or_conspired_death_offences",
     "superior_court_jurisdiction", "sexual_offences_against_minors",
     "transport_offences_causing_injury", "terrorism",
     "criminal_organization", "firearms_weapons_by_indictment" >>

SUMMARY_ELIGIBLE_EXCEPTIONS ==
  << "domestic_violence", "sexual_violence", "elder_abuse" >>

PROGRAM_STAGES ==
  << "referral", "prosecutor_evaluation", "clinical_eligibility",
     "intervention_plan", "hearing_followups", "program_outcome" >>

REFERRAL == "referral"
PROSECUTOR_EVALUATION == "prosecutor_evaluation"
INTERVENTION_PLAN == "intervention_plan"
HEARING_FOLLOWUPS == "hearing_followups"
PROGRAM_OUTCOME == "program_outcome"

\* ------------------------------------------------------------ JS helpers

\* Array.prototype.includes
Includes(arr, v) == \E i \in 1..Len(arr) : arr[i] = v

\* Array.prototype.indexOf, 0-based, -1 when absent
IndexOf(arr, v) ==
  IF Includes(arr, v)
    THEN (CHOOSE i \in 1..Len(arr) :
            arr[i] = v /\ \A j \in 1..(i - 1) : arr[j] # v) - 1
    ELSE -1

\* JavaScript truthiness of the values a field takes here
Truthy(v) == v \notin {"false", "undefined", "null", ""}

\* v || null
OrNull(v) == IF Truthy(v) THEN v ELSE "null"

\* ------------------------------------------------- eligibilityService.js

R_VULNERABILITY == "At least one recognized vulnerability is required"
R_ABSOLUTE == "Offence category \"${offence_category}\" is absolutely excluded from PAJ-SM+"
R_SUMMARY == "Offence category \"${offence_category}\" requires summary prosecution mode"
R_CONSENT == "Offence category \"${offence_category}\" requires victim consent"
R_RESPONSIBILITY == "Accused must accept responsibility"
R_VOLUNTARY == "Participation must be voluntary"
R_DELAY == "Accused must waive delay rights"
R_FIT == "Accused must be criminally fit and responsible"

\* A reason: the message template and the category interpolated into it.
Reason(text, category) == [text |-> text, category |-> category]

\* As HasVulnerability, with every() in place of some()
HasVulnerability_Every(data) ==
  /\ data.vulnerabilities.isArray
  /\ \A i \in 1..Len(data.vulnerabilities.items) :
       data.vulnerabilities.items[i] \in VALID_VULNERABILITIES

HasVulnerability(data) ==
  /\ data.vulnerabilities.isArray
  /\ \E i \in 1..Len(data.vulnerabilities.items) :
       data.vulnerabilities.items[i] \in VALID_VULNERABILITIES

Check1(data) ==
  IF ~HasVulnerability(data) THEN << Reason(R_VULNERABILITY, "") >> ELSE << >>

\* As Check2, waived under summary prosecution
Check2_SummaryExempt(data) ==
  IF /\ Includes(ABSOLUTE_EXCLUSIONS, data.offence_category)
     /\ data.prosecution_mode # "summary"
    THEN << Reason(R_ABSOLUTE, data.offence_category) >> ELSE << >>

\* As Check2, testing the whole EXCLUSIONS list
Check2_AllExclusions(data) ==
  IF Includes(EXCLUSIONS, data.offence_category)
    THEN << Reason(R_ABSOLUTE, data.offence_category) >> ELSE << >>

Check2(data) ==
  IF Includes(ABSOLUTE_EXCLUSIONS, data.offence_category)
    THEN << Reason(R_ABSOLUTE, data.offence_category) >> ELSE << >>

Check3a(data) ==
  IF data.prosecution_mode # "summary"
    THEN << Reason(R_SUMMARY, data.offence_category) >> ELSE << >>

\* As Check3b, with !data.victim_consent in place of !== true
Check3b_Truthy(data) ==
  IF ~Truthy(data.victim_consent)
    THEN << Reason(R_CONSENT, data.offence_category) >> ELSE << >>

Check3b(data) ==
  IF data.victim_consent # "true"
    THEN << Reason(R_CONSENT, data.offence_category) >> ELSE << >>

\* As Check3, applied to every category that is not absolutely excluded
Check3_NotAbsolute(data) ==
  IF ~Includes(ABSOLUTE_EXCLUSIONS, data.offence_category)
    THEN Check3a(data) \o Check3b(data) ELSE << >>

Check3(data) ==
  IF Includes(SUMMARY_ELIGIBLE_EXCEPTIONS, data.offence_category)
    THEN Check3a(data) \o Check3b(data) ELSE << >>

Check4(data) ==
  IF ~Truthy(data.accepts_responsibility)
    THEN << Reason(R_RESPONSIBILITY, "") >> ELSE << >>

\* As Check5, with === false in place of !data.is_voluntary
Check5_StrictFalse(data) ==
  IF data.is_voluntary = "false"
    THEN << Reason(R_VOLUNTARY, "") >> ELSE << >>

Check5(data) ==
  IF ~Truthy(data.is_voluntary) THEN << Reason(R_VOLUNTARY, "") >> ELSE << >>

Check6(data) ==
  IF ~Truthy(data.waives_delay) THEN << Reason(R_DELAY, "") >> ELSE << >>

Check7(data) ==
  IF ~Truthy(data.criminally_fit) THEN << Reason(R_FIT, "") >> ELSE << >>

\* As EligibilityReasons, returning at the first failing check
EligibilityReasons_ShortCircuit(data) ==
  IF Check1(data) # << >> THEN Check1(data)
  ELSE IF Check2(data) # << >> THEN Check2(data)
  ELSE IF Check3(data) # << >> THEN Check3(data)
  ELSE IF Check4(data) # << >> THEN Check4(data)
  ELSE IF Check5(data) # << >> THEN Check5(data)
  ELSE IF Check6(data) # << >> THEN Check6(data)
  ELSE Check7(data)

EligibilityReasons(data) ==
  Check1(data) \o Check2(data) \o Check3(data) \o Check4(data)
    \o Check5(data) \o Check6(data) \o Check7(data)

\* As checkEligibility, with eligible decided by the offence checks alone
checkEligibility_OffenceOnly(data) ==
  IF ~data.present
    THEN [threw |-> TRUE, eligible |-> FALSE, reasons |-> << >>]
    ELSE [threw |-> FALSE,
          eligible |-> Len(Check1(data) \o Check2(data) \o Check3(data)) = 0,
          reasons |-> EligibilityReasons(data)]

\* The verdict; threw = TRUE is the TypeError of reading a field of an
\* absent body (data.vulnerabilities of undefined), with no verdict.
checkEligibility(data) ==
  IF ~data.present
    THEN [threw |-> TRUE, eligible |-> FALSE, reasons |-> << >>]
    ELSE [threw |-> FALSE,
          eligible |-> Len(EligibilityReasons(data)) = 0,
          reasons |-> EligibilityReasons(data)]

getExclusions == EXCLUSIONS

\* ------------------------------------------------------ request bodies

Vulns(items) == [isArray |-> TRUE, items |-> items]

\* req.body.vulnerabilities that is not an array
NotAnArray == [isArray |-> FALSE, items |-> << >>]

Body(v, c, m, vc, ar, iv, wd, cf) ==
  [present |-> TRUE, vulnerabilities |-> v, offence_category |-> c,
   prosecution_mode |-> m, victim_consent |-> vc,
   accepts_responsibility |-> ar, is_voluntary |-> iv,
   waives_delay |-> wd, criminally_fit |-> cf]

\* No body at all: checkEligibility(undefined)
AbsentBody ==
  [present |-> FALSE, vulnerabilities |-> NotAnArray,
   offence_category |-> "undefined", prosecution_mode |-> "undefined",
   victim_consent |-> "undefined", accepts_responsibility |-> "undefined",
   is_voluntary |-> "undefined", waives_delay |-> "undefined",
   criminally_fit |-> "undefined"]

VulnerabilityInputs ==
  { Vulns(<< >>), Vulns(<< "mental_health_disorder" >>),
    Vulns(<< "not_a_real_type" >>),
    Vulns(<< "not_a_real_type", "asd" >>), NotAnArray }

CategoryInputs ==
  { "theft", "terrorism", "death_resulting_offences", "domestic_violence",
    "elder_abuse", "undefined" }

ModeInputs == { "summary", "indictment", "undefined" }

ConsentInputs == { "true", "false", "undefined", "yes" }

AttestationInputs == { "true", "false", "undefined", "yes" }

\* The bodies the evaluator is applied to.
Inputs ==
  { Body(v, c, m, vc, ar, iv, wd, cf) :
      v \in VulnerabilityInputs, c \in CategoryInputs, m \in ModeInputs,
      vc \in ConsentInputs, ar \in AttestationInputs,
      iv \in AttestationInputs, wd \in AttestationInputs,
      cf \in AttestationInputs }
  \cup { AbsentBody }

\* ------------------------------------------------------------- state

VARIABLES
  input,         \* the body handed to POST /pajsm/eligibility/check
  verdict,       \* what checkEligibility returned for it, and whether
                 \* the check before it was of the same body
  participants,  \* pajsm_participants: id -> row
  plans,         \* pajsm_intervention_plans: the rows, in insertion order
  followUps,     \* pajsm_follow_ups: the rows, in insertion order
  now,           \* the clock
  last,          \* the last service call and what it returned
  advCalls,      \* per row: advanceStage calls since enrolment, -1 once
                 \* withdraw or revokeVictimConsent was called on it
  calls          \* per request in flight: the handler suspended between its
                 \* SELECT (await getById) and its UPDATE

vars ==
  << input, verdict, participants, plans, followUps, now, last, advCalls,
     calls >>

\* The requests that can be in flight together
Callers == { "a", "b" }

\* A request slot with no handler suspended in it
Idle == [op |-> "none", id |-> "none", stage |-> "none", enrolled_at |-> 0,
         outcome |-> "none", t |-> 0, data |-> "none"]

NoVerdict == [threw |-> FALSE, eligible |-> FALSE, reasons |-> << >>]

\* ------------------------------------------- POST /pajsm/eligibility/check

EligInit ==
  /\ input \in Inputs
  /\ verdict = [returned |-> FALSE, value |-> NoVerdict, repeats |-> "no"]
  /\ participants = << >>
  /\ plans = << >>
  /\ followUps = << >>
  /\ now = 1
  /\ last = [op |-> "none", id |-> "none", ok |-> TRUE, error |-> "",
             reasons |-> << >>, data |-> AbsentBody]
  /\ advCalls = << >>
  /\ calls = [c \in Callers |-> Idle]

Evaluate ==
  /\ ~verdict.returned
  /\ verdict' = [returned |-> TRUE, value |-> checkEligibility(input),
                 repeats |-> "no"]
  /\ UNCHANGED << input, participants, now, last, advCalls, calls,
                  plans, followUps >>

EligNext == Evaluate

EligSpec == EligInit /\ [][EligNext]_vars

\* ------------------------------------------------------ pajsmService.js

\* A NULL timestamp column (enrolled_at, completed_at)
NULL_TS == 0

Times == 1..MaxTime

\* The ids uuidv4() hands out, and an id no row ever has.  Every statement
\* of the service reads or writes one row (WHERE id = $1), so the table is
\* followed for one row id.
ParticipantIds == { "p1" }
UnknownId == "p0"
RequestIds == ParticipantIds \cup { UnknownId }

E_NOT_ELIGIBLE == "Participant is not eligible for PAJ-SM+"
E_NOT_FOUND == "PAJ-SM+ participant not found"
E_FINAL_STAGE == "Cannot advance beyond the final stage"
E_FINAL_OUTCOME == "Participant already has a final outcome"
E_TYPE_ERROR == "TypeError"
E_PLAN_STAGE ==
  "Intervention plans can only be created during the intervention_plan stage"
E_FOLLOWUP_STAGE ==
  "Follow-ups can only be added during the hearing_followups stage"
\* The INSERT rejected by follow_up_date TIMESTAMP NOT NULL
E_NOT_NULL == "null value in column \"follow_up_date\" violates not-null constraint"

\* The bodies POST /pajsm/enroll is called with: three that pass (an
\* unrestricted offence with and without a consent field, a conditional one),
\* five that fail one or several checks, and no body.
EligibleTheft ==
  Body(Vulns(<< "mental_health_disorder" >>), "theft", "indictment",
       "undefined", "true", "true", "true", "true")

EligibleTheftConsent ==
  Body(Vulns(<< "mental_health_disorder" >>), "theft", "summary",
       "true", "true", "true", "true", "true")

EligibleDomestic ==
  Body(Vulns(<< "mental_health_disorder" >>), "domestic_violence", "summary",
       "true", "true", "true", "true", "true")

EnrollInputs ==
  { EligibleTheft, EligibleTheftConsent, EligibleDomestic,
    Body(Vulns(<< "mental_health_disorder" >>), "domestic_violence",
         "indictment", "true", "true", "true", "true", "true"),
    Body(Vulns(<< "mental_health_disorder" >>), "domestic_violence",
         "indictment", "false", "true", "true", "true", "true"),
    Body(Vulns(<< "mental_health_disorder" >>), "theft", "summary",
         "undefined", "true", "undefined", "true", "true"),
    Body(Vulns(<< >>), "terrorism", "indictment",
         "undefined", "false", "false", "false", "false"),
    Body(NotAnArray, "theft", "summary",
         "undefined", "true", "true", "true", "true"),
    AbsentBody }

\* The body POST /pajsm/eligibility/check is called with while the engine
\* runs: one that fails two checks (every body is evaluated under EligSpec).
CheckInputs ==
  { Body(Vulns(<< "mental_health_disorder" >>), "domestic_violence",
         "indictment", "false", "true", "true", "true", "true") }

Returned(op, id, data) ==
  [op |-> op, id |-> id, ok |-> TRUE, error |-> "", reasons |-> << >>,
   data |-> data]

Thrown(op, id, data, error, reasons) ==
  [op |-> op, id |-> id, ok |-> FALSE, error |-> error, reasons |-> reasons,
   data |-> data]

\* As NewParticipant, with the row already past referral
NewParticipant_PastReferral(data) ==
  [vulnerabilities |-> data.vulnerabilities,
   offence_category |-> OrNull(data.offence_category),
   prosecution_mode |-> OrNull(data.prosecution_mode),
   accepts_responsibility |-> data.accepts_responsibility,
   is_voluntary |-> data.is_voluntary,
   waives_delay |-> data.waives_delay,
   criminally_fit |-> data.criminally_fit,
   victim_consent |-> OrNull(data.victim_consent),
   stage |-> PROSECUTOR_EVALUATION,
   enrolled_at |-> NULL_TS,
   completed_at |-> NULL_TS,
   outcome |-> "null"]

\* The row INSERTed by enroll (the columns the engine reads or writes)
NewParticipant(data) ==
  [vulnerabilities |-> data.vulnerabilities,
   offence_category |-> OrNull(data.offence_category),
   prosecution_mode |-> OrNull(data.prosecution_mode),
   accepts_responsibility |-> data.accepts_responsibility,
   is_voluntary |-> data.is_voluntary,
   waives_delay |-> data.waives_delay,
   criminally_fit |-> data.criminally_fit,
   victim_consent |-> OrNull(data.victim_consent),
   stage |-> REFERRAL,
   enrolled_at |-> NULL_TS,
   completed_at |-> NULL_TS,
   outcome |-> "null"]

Insert(table, id, row) ==
  [i \in DOMAIN table \cup {id} |-> IF i = id THEN row ELSE table[i]]

Init ==
  /\ input = AbsentBody
  /\ verdict = [returned |-> FALSE, value |-> NoVerdict, repeats |-> "no"]
  /\ participants = << >>
  /\ plans = << >>
  /\ followUps = << >>
  /\ now = 1
  /\ last = Returned("none", "none", AbsentBody)
  /\ advCalls = << >>
  /\ calls = [c \in Callers |-> Idle]

\* Time passes.
Tick ==
  /\ now < MaxTime
  /\ now' = now + 1
  /\ UNCHANGED << input, verdict, participants, last, advCalls, calls,
                  plans, followUps >>

\* As NotEligible, throwing only when several checks failed
NotEligible_SeveralReasons(result) == Len(result.reasons) > 1

\* if (!result.eligible)
NotEligible(result) == ~result.eligible

enroll(data) ==
  LET result == checkEligibility(data) IN
  /\ UNCHANGED << input, verdict, now, calls, plans, followUps >>
  /\ IF result.threw
       THEN /\ last' = Thrown("enroll", "none", data, E_TYPE_ERROR, << >>)
            /\ UNCHANGED << participants, advCalls >>
       ELSE IF NotEligible(result)
         THEN /\ last' = Thrown("enroll", "none", data, E_NOT_ELIGIBLE,
                                result.reasons)
              /\ UNCHANGED << participants, advCalls >>
         ELSE \E id \in ParticipantIds \ DOMAIN participants :
                /\ participants' = Insert(participants, id, NewParticipant(data))
                /\ advCalls' = Insert(advCalls, id, 0)
                /\ last' = Returned("enroll", id, data)

\* Whether this check is of the body of the check before it with other
\* service calls between the two
Repeats(data) ==
  IF verdict.returned /\ input = data /\ last.op # "checkEligibility"
    THEN "after_other_calls" ELSE "no"

\* As eligibilityCheck, with the reasons array shared by all calls
\* (declared outside the function), so that each call appends to the last
eligibilityCheck_SharedReasons(data) ==
  LET result == checkEligibility(data)
      reasons == verdict.value.reasons \o result.reasons IN
  /\ input' = data
  /\ verdict' = [returned |-> TRUE,
                 value |-> [result EXCEPT !.reasons = reasons,
                                          !.eligible = Len(reasons) = 0],
                 repeats |-> Repeats(data)]
  /\ last' = IF result.threw
               THEN Thrown("checkEligibility", "none", data, E_TYPE_ERROR,
                           << >>)
               ELSE [Returned("checkEligibility", "none", data)
                       EXCEPT !.reasons = reasons]
  /\ UNCHANGED << participants, now, advCalls, calls, plans, followUps >>

\* POST /pajsm/eligibility/check, at any point of the engine's life: the
\* verdict is the response, and no statement is sent to the database.
eligibilityCheck(data) ==
  LET result == checkEligibility(data) IN
  /\ input' = data
  /\ verdict' = [returned |-> TRUE, value |-> result,
                 repeats |-> Repeats(data)]
  /\ last' = IF result.threw
               THEN Thrown("checkEligibility", "none", data, E_TYPE_ERROR,
                           << >>)
               ELSE [Returned("checkEligibility", "none", data)
                       EXCEPT !.reasons = result.reasons]
  /\ UNCHANGED << participants, now, advCalls, calls, plans, followUps >>

\* As NextStage, skipping a stage where there is one to skip
NextStage_Skip(currentIndex) ==
  IF currentIndex + 3 <= Len(PROGRAM_STAGES)
    THEN PROGRAM_STAGES[currentIndex + 3]
    ELSE PROGRAM_STAGES[currentIndex + 2]

\* PROGRAM_STAGES[currentIndex + 1], currentIndex counted from 0
NextStage(currentIndex) == PROGRAM_STAGES[currentIndex + 2]

\* As CannotAdvance, without the test for a stage that is no stage
CannotAdvance_FinalOnly(participant) ==
  LET currentIndex == IndexOf(PROGRAM_STAGES, participant.stage) IN
  currentIndex >= Len(PROGRAM_STAGES) - 1

\* advanceStage's precondition on the row it read
CannotAdvance(participant) ==
  LET currentIndex == IndexOf(PROGRAM_STAGES, participant.stage) IN
  currentIndex = -1 \/ currentIndex >= Len(PROGRAM_STAGES) - 1

\* As AdvanceUpdate, without outcome = 'completed' on the last transition
AdvanceUpdate_NoOutcome(row, participant, t) ==
  LET nextStage == NextStage(IndexOf(PROGRAM_STAGES, participant.stage)) IN
  [row EXCEPT
     !.stage = nextStage,
     !.enrolled_at =
        IF nextStage = PROSECUTOR_EVALUATION /\ participant.enrolled_at = NULL_TS
          THEN t ELSE @,
     !.completed_at = IF nextStage = PROGRAM_OUTCOME THEN t ELSE @]

\* As AdvanceUpdate, writing enrolled_at on every transition
AdvanceUpdate_Restamp(row, participant, t) ==
  LET nextStage == NextStage(IndexOf(PROGRAM_STAGES, participant.stage)) IN
  [row EXCEPT
     !.stage = nextStage,
     !.enrolled_at = t,
     !.completed_at = IF nextStage = PROGRAM_OUTCOME THEN t ELSE @,
     !.outcome = IF nextStage = PROGRAM_OUTCOME THEN "completed" ELSE @]

\* As AdvanceUpdate, without completed_at on the last transition
AdvanceUpdate_NoCompletedAt(row, participant, t) ==
  LET nextStage == NextStage(IndexOf(PROGRAM_STAGES, participant.stage)) IN
  [row EXCEPT
     !.stage = nextStage,
     !.enrolled_at =
        IF nextStage = PROSECUTOR_EVALUATION /\ participant.enrolled_at = NULL_TS
          THEN t ELSE @,
     !.outcome = IF nextStage = PROGRAM_OUTCOME THEN "completed" ELSE @]

\* As AdvanceUpdate, completing one transition early as well
AdvanceUpdate_CompletesEarly(row, participant, t) ==
  LET nextStage == NextStage(IndexOf(PROGRAM_STAGES, participant.stage)) IN
  [row EXCEPT
     !.stage = nextStage,
     !.enrolled_at =
        IF nextStage = PROSECUTOR_EVALUATION /\ participant.enrolled_at = NULL_TS
          THEN t ELSE @,
     !.completed_at =
        IF nextStage \in { HEARING_FOLLOWUPS, PROGRAM_OUTCOME } THEN t ELSE @,
     !.outcome =
        IF nextStage \in { HEARING_FOLLOWUPS, PROGRAM_OUTCOME }
          THEN "completed" ELSE @]

\* As AdvanceUpdate, writing enrolled_at on the second transition
AdvanceUpdate_StampsLate(row, participant, t) ==
  LET nextStage == NextStage(IndexOf(PROGRAM_STAGES, participant.stage)) IN
  [row EXCEPT
     !.stage = nextStage,
     !.enrolled_at =
        IF nextStage = "clinical_eligibility" /\ participant.enrolled_at = NULL_TS
          THEN t ELSE @,
     !.completed_at = IF nextStage = PROGRAM_OUTCOME THEN t ELSE @,
     !.outcome = IF nextStage = PROGRAM_OUTCOME THEN "completed" ELSE @]

\* As AdvanceUpdate, completing only a participant that has no outcome yet
AdvanceUpdate_KeepsOutcome(row, participant, t) ==
  LET nextStage == NextStage(IndexOf(PROGRAM_STAGES, participant.stage))
      completes == nextStage = PROGRAM_OUTCOME /\ ~Truthy(participant.outcome)
  IN
  [row EXCEPT
     !.stage = nextStage,
     !.enrolled_at =
        IF nextStage = PROSECUTOR_EVALUATION /\ participant.enrolled_at = NULL_TS
          THEN t ELSE @,
     !.completed_at = IF completes THEN t ELSE @,
     !.outcome = IF completes THEN "completed" ELSE @]

\* The UPDATE of advanceStage: the SET list is built from the row that was
\* read (participant) and applied to the stored row (row).
AdvanceUpdate(row, participant, t) ==
  LET nextStage == NextStage(IndexOf(PROGRAM_STAGES, participant.stage)) IN
  [row EXCEPT
     !.stage = nextStage,
     !.enrolled_at =
        IF nextStage = PROSECUTOR_EVALUATION /\ participant.enrolled_at = NULL_TS
          THEN t ELSE @,
     !.completed_at = IF nextStage = PROGRAM_OUTCOME THEN t ELSE @,
     !.outcome = IF nextStage = PROGRAM_OUTCOME THEN "completed" ELSE @]

\* The count of advanceStage calls on a row that has seen nothing else
CountAdvance(id) ==
  IF id \in DOMAIN advCalls /\ advCalls[id] >= 0
    THEN [advCalls EXCEPT ![id] = @ + 1] ELSE advCalls

CountOther(id) ==
  IF id \in DOMAIN advCalls THEN [advCalls EXCEPT ![id] = -1] ELSE advCalls

advanceStage(id) ==
  /\ id \in DOMAIN advCalls => advCalls[id] < MaxAdvCalls
  /\ UNCHANGED << input, verdict, now, calls, plans, followUps >>
  /\ advCalls' = CountAdvance(id)
  /\ IF id \notin DOMAIN participants
       THEN /\ last' = Thrown("advanceStage", id, AbsentBody, E_NOT_FOUND, << >>)
            /\ UNCHANGED participants
       ELSE IF CannotAdvance(participants[id])
         THEN /\ last' = Thrown("advanceStage", id, AbsentBody, E_FINAL_STAGE, << >>)
              /\ UNCHANGED participants
         ELSE /\ participants' =
                   [participants EXCEPT
                      ![id] = AdvanceUpdate(@, participants[id], now)]
              /\ last' = Returned("advanceStage", id, AbsentBody)

\* As HasOutcome, true of a completed participant only
HasOutcome_CompletedOnly(participant) == participant.outcome = "completed"

\* As HasOutcome, true as well once the participant has follow-ups
HasOutcome_OrHasFollowUps(participant) ==
  Truthy(participant.outcome) \/ Len(followUps) > 0

\* if (participant.outcome), of withdraw and of revokeVictimConsent
HasOutcome(participant) == Truthy(participant.outcome)

\* As WithdrawUpdate, closing the stage sequence as well
WithdrawUpdate_ToFinalStage(row, t) ==
  [row EXCEPT !.outcome = "withdrawn", !.completed_at = t,
              !.stage = PROGRAM_OUTCOME]

\* As WithdrawUpdate, with an outcome of its own
WithdrawUpdate_Cancelled(row, t) ==
  [row EXCEPT !.outcome = "cancelled", !.completed_at = t]

\* As WithdrawUpdate, clearing the stored consent as well
WithdrawUpdate_ClearsConsent(row, t) ==
  [row EXCEPT !.outcome = "withdrawn", !.completed_at = t,
              !.victim_consent = "null"]

\* The UPDATE of withdraw
WithdrawUpdate(row, t) ==
  [row EXCEPT !.outcome = "withdrawn", !.completed_at = t]

withdraw(id) ==
  /\ UNCHANGED << input, verdict, now, calls, plans, followUps >>
  /\ advCalls' = CountOther(id)
  /\ IF id \notin DOMAIN participants
       THEN /\ last' = Thrown("withdraw", id, AbsentBody, E_NOT_FOUND, << >>)
            /\ UNCHANGED participants
       ELSE IF HasOutcome(participants[id])
         THEN /\ last' = Thrown("withdraw", id, AbsentBody, E_FINAL_OUTCOME, << >>)
              /\ UNCHANGED participants
         ELSE /\ participants' =
                   [participants EXCEPT ![id] = WithdrawUpdate(@, now)]
              /\ last' = Returned("withdraw", id, AbsentBody)

\* As RevokeUpdate, leaving the stored victim_consent as it is
RevokeUpdate_KeepsConsent(row, t) ==
  [row EXCEPT !.outcome = "returned_to_court", !.completed_at = t]

\* As RevokeUpdate, without completed_at
RevokeUpdate_NoCompletedAt(row, t) ==
  [row EXCEPT !.victim_consent = "false", !.outcome = "returned_to_court"]

\* The UPDATE of revokeVictimConsent
RevokeUpdate(row, t) ==
  [row EXCEPT !.victim_consent = "false", !.outcome = "returned_to_court",
              !.completed_at = t]

\* As revokeVictimConsent, refused for an offence that needed no consent
revokeVictimConsent_ConsentCategoriesOnly(id) ==
  /\ UNCHANGED << input, verdict, now, calls, plans, followUps >>
  /\ advCalls' = CountOther(id)
  /\ IF id \notin DOMAIN participants
       THEN /\ last' = Thrown("revokeVictimConsent", id, AbsentBody,
                              E_NOT_FOUND, << >>)
            /\ UNCHANGED participants
       ELSE IF \/ HasOutcome(participants[id])
               \/ ~Includes(SUMMARY_ELIGIBLE_EXCEPTIONS,
                            participants[id].offence_category)
         THEN /\ last' = Thrown("revokeVictimConsent", id, AbsentBody,
                                E_FINAL_OUTCOME, << >>)
              /\ UNCHANGED participants
         ELSE /\ participants' =
                   [participants EXCEPT ![id] = RevokeUpdate(@, now)]
              /\ last' = Returned("revokeVictimConsent", id, AbsentBody)

revokeVictimConsent(id) ==
  /\ UNCHANGED << input, verdict, now, calls, plans, followUps >>
  /\ advCalls' = CountOther(id)
  /\ IF id \notin DOMAIN participants
       THEN /\ last' = Thrown("revokeVictimConsent", id, AbsentBody,
                              E_NOT_FOUND, << >>)
            /\ UNCHANGED participants
       ELSE IF HasOutcome(participants[id])
         THEN /\ last' = Thrown("revokeVictimConsent", id, AbsentBody,
                                E_FINAL_OUTCOME, << >>)
              /\ UNCHANGED participants
         ELSE /\ participants' =
                   [participants EXCEPT ![id] = RevokeUpdate(@, now)]
              /\ last' = Returned("revokeVictimConsent", id, AbsentBody)

\* The body of POST /pajsm/:id/intervention-plan: plan_details given,
\* objectives left out
PlanInputs ==
  { [plan_details |-> "weekly therapy", objectives |-> "undefined"] }

\* The row INSERTed by createInterventionPlan
NewPlan(participantId, data) ==
  [participant_id |-> participantId,
   plan_details |-> OrNull(data.plan_details),
   objectives |-> OrNull(data.objectives)]

\* As NotAtInterventionPlan, refusing only the stages before it
NotAtInterventionPlan_Before(participant) ==
  IndexOf(PROGRAM_STAGES, participant.stage)
    < IndexOf(PROGRAM_STAGES, INTERVENTION_PLAN)

\* As NotAtInterventionPlan, refusing a participant with an outcome too
NotAtInterventionPlan_OrClosed(participant) ==
  participant.stage # INTERVENTION_PLAN \/ Truthy(participant.outcome)

\* participant.stage !== PROGRAM_STAGE_KEYS.INTERVENTION_PLAN
NotAtInterventionPlan(participant) == participant.stage # INTERVENTION_PLAN

\* As createInterventionPlan, inserting without looking the participant up
createInterventionPlan_NoLookup(participantId, data) ==
  /\ UNCHANGED << input, verdict, participants, followUps, now, advCalls,
                  calls >>
  /\ IF /\ participantId \in DOMAIN participants
        /\ NotAtInterventionPlan(participants[participantId])
       THEN /\ last' = Thrown("createInterventionPlan", participantId, data,
                              E_PLAN_STAGE, << >>)
            /\ UNCHANGED plans
       ELSE /\ Len(plans) < MaxPlans
            /\ plans' = Append(plans, NewPlan(participantId, data))
            /\ last' = Returned("createInterventionPlan", participantId, data)

createInterventionPlan(participantId, data) ==
  /\ UNCHANGED << input, verdict, participants, followUps, now, advCalls,
                  calls >>
  /\ IF participantId \notin DOMAIN participants
       THEN /\ last' = Thrown("createInterventionPlan", participantId, data,
                              E_NOT_FOUND, << >>)
            /\ UNCHANGED plans
       ELSE IF NotAtInterventionPlan(participants[participantId])
         THEN /\ last' = Thrown("createInterventionPlan", participantId, data,
                                E_PLAN_STAGE, << >>)
              /\ UNCHANGED plans
         ELSE /\ Len(plans) < MaxPlans
              /\ plans' = Append(plans, NewPlan(participantId, data))
              /\ last' = Returned("createInterventionPlan", participantId, data)

\* The bodies of POST /pajsm/:id/follow-ups: with and without follow_up_date
FollowUpInputs ==
  { [follow_up_date |-> "2026-01-15", notes |-> "undefined"],
    [follow_up_date |-> "undefined", notes |-> "attended"] }

\* The row INSERTed by addFollowUp; an undefined parameter is sent as NULL
NewFollowUp(participantId, data) ==
  [participant_id |-> participantId,
   follow_up_date |->
     IF data.follow_up_date = "undefined" THEN "null" ELSE data.follow_up_date,
   notes |-> OrNull(data.notes)]

\* follow_up_date TIMESTAMP NOT NULL
ViolatesNotNull(row) == row.follow_up_date = "null"

\* As NotAtHearingFollowups, refusing only the stages before it
NotAtHearingFollowups_Before(participant) ==
  IndexOf(PROGRAM_STAGES, participant.stage)
    < IndexOf(PROGRAM_STAGES, HEARING_FOLLOWUPS)

\* participant.stage !== PROGRAM_STAGE_KEYS.HEARING_FOLLOWUPS
NotAtHearingFollowups(participant) == participant.stage # HEARING_FOLLOWUPS

addFollowUp(participantId, data) ==
  /\ UNCHANGED << input, verdict, participants, plans, now, advCalls, calls >>
  /\ IF participantId \notin DOMAIN participants
       THEN /\ last' = Thrown("addFollowUp", participantId, data,
                              E_NOT_FOUND, << >>)
            /\ UNCHANGED followUps
       ELSE IF NotAtHearingFollowups(participants[participantId])
         THEN /\ last' = Thrown("addFollowUp", participantId, data,
                                E_FOLLOWUP_STAGE, << >>)
              /\ UNCHANGED followUps
         ELSE IF ViolatesNotNull(NewFollowUp(participantId, data))
           THEN /\ last' = Thrown("addFollowUp", participantId, data,
                                  E_NOT_NULL, << >>)
                /\ UNCHANGED followUps
           ELSE /\ Len(followUps) < MaxFollowUps
                /\ followUps' =
                     Append(followUps, NewFollowUp(participantId, data))
                /\ last' = Returned("addFollowUp", participantId, data)

Next ==
  \/ Tick
  \/ \E data \in CheckInputs : eligibilityCheck(data)
  \/ \E data \in EnrollInputs : enroll(data)
  \/ \E id \in RequestIds : advanceStage(id)
  \/ \E id \in RequestIds : withdraw(id)
  \/ \E id \in RequestIds : revokeVictimConsent(id)
  \/ \E id \in RequestIds, data \in PlanInputs :
       createInterventionPlan(id, data)
  \/ \E id \in RequestIds, data \in FollowUpInputs : addFollowUp(id, data)

Spec == Init /\ [][Next]_vars

\* ------------------------------------- requests that overlap in time
\* Each handler awaits getById (a SELECT) and then pool.query (an UPDATE):
\* two statements on the pool with no transaction, lock or version check,
\* so another request's statements can run between them.

\* The row the handler holds after await getById: the columns it reads
Suspended(op, id, row, t) ==
  [op |-> op, id |-> id, stage |-> row.stage,
   enrolled_at |-> row.enrolled_at, outcome |-> row.outcome, t |-> t,
   data |-> "none"]

\* advanceStage up to its UPDATE: getById, the stage check, the parameters
\* (new Date() is taken here, before the UPDATE is sent)
advanceStageRead(c, id) ==
  /\ calls[c].op = Idle.op
  /\ UNCHANGED << input, verdict, now, participants, advCalls,
                  plans, followUps >>
  /\ IF id \notin DOMAIN participants
       THEN /\ last' = Thrown("advanceStage", id, AbsentBody, E_NOT_FOUND, << >>)
            /\ UNCHANGED calls
       ELSE IF CannotAdvance(participants[id])
         THEN /\ last' = Thrown("advanceStage", id, AbsentBody, E_FINAL_STAGE, << >>)
              /\ UNCHANGED calls
         ELSE /\ calls' = [calls EXCEPT
                   ![c] = Suspended("advanceStage", id, participants[id], now)]
              /\ UNCHANGED last

\* advanceStage's UPDATE ... WHERE id = $n and its return
advanceStageWrite(c) ==
  /\ calls[c].op = "advanceStage"
  /\ participants' =
       [participants EXCEPT
          ![calls[c].id] = AdvanceUpdate(@, calls[c], calls[c].t)]
  /\ last' = Returned("advanceStage", calls[c].id, AbsentBody)
  /\ calls' = [calls EXCEPT ![c] = Idle]
  /\ UNCHANGED << input, verdict, now, advCalls, plans, followUps >>

\* withdraw up to its UPDATE: getById and the outcome check
withdrawRead(c, id) ==
  /\ calls[c].op = Idle.op
  /\ UNCHANGED << input, verdict, now, participants, advCalls,
                  plans, followUps >>
  /\ IF id \notin DOMAIN participants
       THEN /\ last' = Thrown("withdraw", id, AbsentBody, E_NOT_FOUND, << >>)
            /\ UNCHANGED calls
       ELSE IF HasOutcome(participants[id])
         THEN /\ last' = Thrown("withdraw", id, AbsentBody, E_FINAL_OUTCOME, << >>)
              /\ UNCHANGED calls
         ELSE /\ calls' = [calls EXCEPT
                   ![c] = Suspended("withdraw", id, participants[id], 0)]
              /\ UNCHANGED last

\* withdraw's UPDATE ... WHERE id = $1 (NOW() is the time of the UPDATE)
withdrawWrite(c) ==
  /\ calls[c].op = "withdraw"
  /\ participants' =
       [participants EXCEPT ![calls[c].id] = WithdrawUpdate(@, now)]
  /\ last' = Returned("withdraw", calls[c].id, AbsentBody)
  /\ calls' = [calls EXCEPT ![c] = Idle]
  /\ UNCHANGED << input, verdict, now, advCalls, plans, followUps >>

\* revokeVictimConsent up to its UPDATE: getById and the outcome check
revokeVictimConsentRead(c, id) ==
  /\ calls[c].op = Idle.op
  /\ UNCHANGED << input, verdict, now, participants, advCalls,
                  plans, followUps >>
  /\ IF id \notin DOMAIN participants
       THEN /\ last' = Thrown("revokeVictimConsent", id, AbsentBody,
                              E_NOT_FOUND, << >>)
            /\ UNCHANGED calls
       ELSE IF HasOutcome(participants[id])
         THEN /\ last' = Thrown("revokeVictimConsent", id, AbsentBody,
                                E_FINAL_OUTCOME, << >>)
              /\ UNCHANGED calls
         ELSE /\ calls' = [calls EXCEPT
                   ![c] = Suspended("revokeVictimConsent", id,
                                    participants[id], 0)]
              /\ UNCHANGED last

\* revokeVictimConsent's UPDATE ... WHERE id = $1 and its return
revokeVictimConsentWrite(c) ==
  /\ calls[c].op = "revokeVictimConsent"
  /\ participants' =
       [participants EXCEPT ![calls[c].id] = RevokeUpdate(@, now)]
  /\ last' = Returned("revokeVictimConsent", calls[c].id, AbsentBody)
  /\ calls' = [calls EXCEPT ![c] = Idle]
  /\ UNCHANGED << input, verdict, now, advCalls, plans, followUps >>

\* createInterventionPlan up to its INSERT: getById and the stage check
createInterventionPlanRead(c, participantId, data) ==
  /\ calls[c].op = Idle.op
  /\ UNCHANGED << input, verdict, now, participants, advCalls,
                  plans, followUps >>
  /\ IF participantId \notin DOMAIN participants
       THEN /\ last' = Thrown("createInterventionPlan", participantId, data,
                              E_NOT_FOUND, << >>)
            /\ UNCHANGED calls
       ELSE IF NotAtInterventionPlan(participants[participantId])
         THEN /\ last' = Thrown("createInterventionPlan", participantId, data,
                                E_PLAN_STAGE, << >>)
              /\ UNCHANGED calls
         ELSE /\ calls' = [calls EXCEPT
                   ![c] = [Suspended("createInterventionPlan", participantId,
                                     participants[participantId], 0)
                             EXCEPT !.data = data]]
              /\ UNCHANGED last

\* createInterventionPlan's INSERT and its return
createInterventionPlanWrite(c) ==
  /\ calls[c].op = "createInterventionPlan"
  /\ Len(plans) < MaxPlans
  /\ plans' = Append(plans, NewPlan(calls[c].id, calls[c].data))
  /\ last' = Returned("createInterventionPlan", calls[c].id, calls[c].data)
  /\ calls' = [calls EXCEPT ![c] = Idle]
  /\ UNCHANGED << input, verdict, now, participants, advCalls, followUps >>

\* addFollowUp up to its INSERT: getById and the stage check
addFollowUpRead(c, participantId, data) ==
  /\ calls[c].op = Idle.op
  /\ UNCHANGED << input, verdict, now, participants, advCalls,
                  plans, followUps >>
  /\ IF participantId \notin DOMAIN participants
       THEN /\ last' = Thrown("addFollowUp", participantId, data,
                              E_NOT_FOUND, << >>)
            /\ UNCHANGED calls
       ELSE IF NotAtHearingFollowups(participants[participantId])
         THEN /\ last' = Thrown("addFollowUp", participantId, data,
                                E_FOLLOWUP_STAGE, << >>)
              /\ UNCHANGED calls
         ELSE /\ calls' = [calls EXCEPT
                   ![c] = [Suspended("addFollowUp", participantId,
                                     participants[participantId], 0)
                             EXCEPT !.data = data]]
              /\ UNCHANGED last

\* addFollowUp's INSERT, accepted or rejected by the table, and its return
addFollowUpWrite(c) ==
  /\ calls[c].op = "addFollowUp"
  /\ calls' = [calls EXCEPT ![c] = Idle]
  /\ UNCHANGED << input, verdict, now, participants, advCalls, plans >>
  /\ IF ViolatesNotNull(NewFollowUp(calls[c].id, calls[c].data))
       THEN /\ last' = Thrown("addFollowUp", calls[c].id, calls[c].data,
                              E_NOT_NULL, << >>)
            /\ UNCHANGED followUps
       ELSE /\ Len(followUps) < MaxFollowUps
            /\ followUps' =
                 Append(followUps, NewFollowUp(calls[c].id, calls[c].data))
            /\ last' = Returned("addFollowUp", calls[c].id, calls[c].data)

ConcNext ==
  \/ \E data \in EnrollInputs : enroll(data)
  \/ \E c \in Callers, id \in RequestIds : advanceStageRead(c, id)
  \/ \E c \in Callers : advanceStageWrite(c)
  \/ \E c \in Callers, id \in RequestIds : withdrawRead(c, id)
  \/ \E c \in Callers : withdrawWrite(c)
  \/ \E c \in Callers, id \in RequestIds : revokeVictimConsentRead(c, id)
  \/ \E c \in Callers : revokeVictimConsentWrite(c)
  \/ \E c \in Callers, id \in RequestIds, data \in PlanInputs :
       createInterventionPlanRead(c, id, data)
  \/ \E c \in Callers : createInterventionPlanWrite(c)
  \/ \E c \in Callers, id \in RequestIds, data \in FollowUpInputs :
       addFollowUpRead(c, id, data)
  \/ \E c \in Callers : addFollowUpWrite(c)

ConcSpec == Init /\ [][ConcNext]_vars

\* =================================================================
\* Properties of the eligibility evaluator (under EligSpec)
\* =================================================================

Range(seq) == { seq[i] : i \in 1..Len(seq) }

VerdictReturned == verdict.returned /\ ~verdict.value.threw

\* C9: for every input, the verdict checkEligibility returns has
\* eligible = true if and only if its reasons list is empty.
C9_EligibleIffNoReasons ==
  VerdictReturned =>
    (verdict.value.eligible <=> verdict.value.reasons = << >>)

\* A verdict with exactly one reason, the smallest ineligible one
C9_Witness ==
  /\ VerdictReturned
  /\ ~verdict.value.eligible
  /\ Len(verdict.value.reasons) = 1

\* The eight reasons in their fixed order
ReasonOrder ==
  << R_VULNERABILITY, R_ABSOLUTE, R_SUMMARY, R_CONSENT,
     R_RESPONSIBILITY, R_VOLUNTARY, R_DELAY, R_FIT >>

Rank(text) == CHOOSE k \in 1..Len(ReasonOrder) : ReasonOrder[k] = text

AttestationFails(v) == v \in { "false", "undefined" }

\* Whether the check of rank k fails on body d, stated on the body alone
Fails(d, k) ==
  CASE k = 1 -> ~( /\ d.vulnerabilities.isArray
                   /\ Range(d.vulnerabilities.items) \cap VULNERABILITIES # {} )
    [] k = 2 -> d.offence_category \in Range(ABSOLUTE_EXCLUSIONS)
    [] k = 3 -> /\ d.offence_category \in Range(SUMMARY_ELIGIBLE_EXCEPTIONS)
                /\ d.prosecution_mode # "summary"
    [] k = 4 -> /\ d.offence_category \in Range(SUMMARY_ELIGIBLE_EXCEPTIONS)
                /\ d.victim_consent # "true"
    [] k = 5 -> AttestationFails(d.accepts_responsibility)
    [] k = 6 -> AttestationFails(d.is_voluntary)
    [] k = 7 -> AttestationFails(d.waives_delay)
    [] k = 8 -> AttestationFails(d.criminally_fit)

MaximallyFailing(d) ==
  /\ d.present
  /\ d.vulnerabilities = Vulns(<< >>)
  /\ d.offence_category \in Range(ABSOLUTE_EXCLUSIONS)
  /\ d.prosecution_mode = "indictment"
  /\ d.accepts_responsibility = "false"
  /\ d.is_voluntary = "false"
  /\ d.waives_delay = "false"
  /\ d.criminally_fit = "false"

\* C10: checkEligibility never short-circuits: the reasons list holds the
\* reason of a check exactly when that check fails on the input, in the
\* fixed order (vulnerability, absolute exclusion, prosecution mode, victim
\* consent, responsibility, voluntary, delay, fitness), each once, and a
\* maximally failing input gets at least 5 reasons.
C10_AllFailingReasonsInOrder ==
  VerdictReturned =>
    LET reasons == verdict.value.reasons IN
    /\ \A k \in 1..Len(ReasonOrder) :
         Fails(input, k) <=>
           \E i \in 1..Len(reasons) : reasons[i].text = ReasonOrder[k]
    /\ \A i \in 1..Len(reasons) : reasons[i].text \in Range(ReasonOrder)
    /\ \A i, j \in 1..Len(reasons) :
         i < j => Rank(reasons[i].text) < Rank(reasons[j].text)
    /\ MaximallyFailing(input) => Len(reasons) >= 5

\* The verdict of a maximally failing input
C10_Witness ==
  /\ VerdictReturned
  /\ MaximallyFailing(input)
  /\ Len(verdict.value.reasons) = 6

HasReason(r) ==
  \E i \in 1..Len(verdict.value.reasons) : verdict.value.reasons[i] = r

\* How many reasons of the verdict carry one of the messages in texts
CountReasons(texts) ==
  Cardinality({ i \in 1..Len(verdict.value.reasons) :
                  verdict.value.reasons[i].text \in texts })

AllAttested(d) ==
  /\ d.accepts_responsibility = "true"
  /\ d.is_voluntary = "true"
  /\ d.waives_delay = "true"
  /\ d.criminally_fit = "true"

HasValidVulnerability(d) ==
  /\ d.vulnerabilities.isArray
  /\ Range(d.vulnerabilities.items) \cap VULNERABILITIES # {}

\* C11: every input whose offence_category is in the absolute-exclusion
\* set is ineligible, with a reason naming that category, whatever its
\* other fields are.
C11_AbsoluteExclusionIneligible ==
  (VerdictReturned /\ input.offence_category \in Range(ABSOLUTE_EXCLUSIONS))
    => /\ ~verdict.value.eligible
       /\ HasReason(Reason(R_ABSOLUTE, input.offence_category))

\* An absolutely excluded category on a body that passes everything else,
\* summary prosecution and victim consent included
C11_Witness ==
  /\ VerdictReturned
  /\ input = Body(Vulns(<< "mental_health_disorder" >>), "terrorism",
                  "summary", "true", "true", "true", "true", "true")
  /\ verdict.value.reasons = << Reason(R_ABSOLUTE, "terrorism") >>

\* C12: for a category of the summary-eligible exceptions, the verdict has
\* the "requires summary prosecution mode" reason exactly when
\* prosecution_mode is not 'summary', and the "requires victim consent"
\* reason exactly when victim_consent is not the boolean true; the two are
\* reported independently of each other.
C12_ConditionalChecksIndependent ==
  (VerdictReturned
     /\ input.offence_category \in Range(SUMMARY_ELIGIBLE_EXCEPTIONS))
    => /\ HasReason(Reason(R_SUMMARY, input.offence_category))
            <=> input.prosecution_mode # "summary"
       /\ HasReason(Reason(R_CONSENT, input.offence_category))
            <=> input.victim_consent # "true"

\* Both conditions fail at once, the consent through a truthy value that
\* is not the boolean true
C12_Witness ==
  /\ VerdictReturned
  /\ input.offence_category = "domestic_violence"
  /\ input.prosecution_mode = "indictment"
  /\ input.victim_consent = "yes"
  /\ HasReason(Reason(R_SUMMARY, "domestic_violence"))
  /\ HasReason(Reason(R_CONSENT, "domestic_violence"))

\* C13: an input with at least one valid vulnerability, a category of the
\* summary-eligible exceptions, prosecution_mode 'summary', victim_consent
\* true and all four attestations true is eligible, with no reasons.
C13_ConditionalCategoryAdmitted ==
  (VerdictReturned
     /\ HasValidVulnerability(input)
     /\ input.offence_category \in Range(SUMMARY_ELIGIBLE_EXCEPTIONS)
     /\ input.prosecution_mode = "summary"
     /\ input.victim_consent = "true"
     /\ AllAttested(input))
    => /\ verdict.value.eligible
       /\ verdict.value.reasons = << >>

C13_Witness ==
  /\ VerdictReturned
  /\ input = Body(Vulns(<< "not_a_real_type", "asd" >>), "elder_abuse",
                  "summary", "true", "true", "true", "true", "true")
  /\ verdict.value.eligible

\* C14: for a category outside both exclusion sets the verdict does not
\* depend on prosecution_mode or victim_consent: the body with any other
\* values in those two fields gets the same eligible flag and reasons.
C14_UnrestrictedIgnoresModeAndConsent ==
  (VerdictReturned
     /\ input.offence_category \notin
          Range(ABSOLUTE_EXCLUSIONS) \cup Range(SUMMARY_ELIGIBLE_EXCEPTIONS))
    => \A m \in ModeInputs, vc \in ConsentInputs :
         LET other == checkEligibility(
                        [input EXCEPT !.prosecution_mode = m,
                                      !.victim_consent = vc])
         IN  /\ other.eligible = verdict.value.eligible
             /\ other.reasons = verdict.value.reasons

\* An unrestricted category admitted on indictment and without consent
C14_Witness ==
  /\ VerdictReturned
  /\ input.offence_category = "theft"
  /\ input.prosecution_mode = "indictment"
  /\ input.victim_consent = "false"
  /\ verdict.value.eligible

Attestations ==
  { << "accepts_responsibility", R_RESPONSIBILITY >>,
    << "is_voluntary", R_VOLUNTARY >>,
    << "waives_delay", R_DELAY >>,
    << "criminally_fit", R_FIT >> }

\* C15: an input in which any of the four attestations is missing or falsy
\* is ineligible and has the reason of that attestation, one reason for
\* each failing attestation.
C15_EachFailingAttestationReported ==
  VerdictReturned =>
    /\ \A a \in Attestations :
         AttestationFails(input[a[1]]) =>
           /\ ~verdict.value.eligible
           /\ CountReasons({ a[2] }) = 1
    /\ CountReasons({ a[2] : a \in Attestations })
         = Cardinality({ a \in Attestations : AttestationFails(input[a[1]]) })

\* One attestation absent, everything else passing
C15_Witness ==
  /\ VerdictReturned
  /\ input.is_voluntary = "undefined"
  /\ input.accepts_responsibility = "true"
  /\ input.waives_delay = "true"
  /\ input.criminally_fit = "true"
  /\ verdict.value.reasons = << Reason(R_VOLUNTARY, "") >>

\* C16: the verdict has the vulnerability reason exactly when
\* vulnerabilities has no valid member (an empty list, a list of invalid
\* entries only, or a value that is not a list); a list with a valid entry
\* passes whatever else it holds.
C16_VulnerabilityReasonIffNoValidMember ==
  VerdictReturned =>
    (HasReason(Reason(R_VULNERABILITY, "")) <=> ~HasValidVulnerability(input))

\* A list mixing an invalid and a valid entry passes the check
C16_Witness ==
  /\ VerdictReturned
  /\ input.vulnerabilities = Vulns(<< "not_a_real_type", "asd" >>)
  /\ ~HasReason(Reason(R_VULNERABILITY, ""))

\* C17: checkEligibility is total: for every input, the absent one
\* included, the call returns a verdict and raises nothing.
C17_NeverRaises ==
  verdict.returned => ~verdict.value.threw

\* C31: the absolute-exclusion set and the summary-eligible-exception set
\* are disjoint and together are the list getExclusions returns, and no
\* verdict has both an "absolutely excluded" reason and a conditional one
\* ("requires summary prosecution mode", "requires victim consent").
C31_ExclusionSetsPartition ==
  /\ Range(ABSOLUTE_EXCLUSIONS) \cap Range(SUMMARY_ELIGIBLE_EXCEPTIONS) = {}
  /\ Range(ABSOLUTE_EXCLUSIONS) \cup Range(SUMMARY_ELIGIBLE_EXCEPTIONS)
       = Range(getExclusions)
  /\ VerdictReturned =>
       ~(CountReasons({ R_ABSOLUTE }) > 0
           /\ CountReasons({ R_SUMMARY, R_CONSENT }) > 0)

\* An absolutely excluded category on indictment and without consent: the
\* absolute reason, none of the conditional ones
C31_Witness ==
  /\ VerdictReturned
  /\ input.offence_category = "terrorism"
  /\ input.prosecution_mode = "indictment"
  /\ input.victim_consent = "false"
  /\ CountReasons({ R_ABSOLUTE }) = 1
  /\ CountReasons({ R_SUMMARY, R_CONSENT }) = 0

\* C18: checkEligibility is deterministic and free of side effects: a
\* check of the body of the check before it returns the same verdict,
\* whatever service calls ran between the two, and no check changes a
\* stored participant.  (Checked under Spec, where checks interleave with
\* the engine's operations.)
C18_CheckDeterministicAndPure ==
  [][ (now' = now /\ last'.op = "checkEligibility")
        => /\ participants' = participants
           /\ (verdict.returned /\ input = last'.data)
                => verdict'.value = verdict.value ]_vars

\* The same ineligible body checked before and after the participant was
\* enrolled, advanced and withdrawn
C18_Witness ==
  /\ last.op = "checkEligibility"
  /\ verdict.repeats = "after_other_calls"
  /\ Len(verdict.value.reasons) = 2
  /\ \E id \in DOMAIN participants :
       /\ participants[id].outcome = "withdrawn"
       /\ participants[id].stage # REFERRAL

\* =================================================================
\* Properties of the stage progression engine (under Spec)
\* =================================================================

Mutators == { "advanceStage", "withdraw", "revokeVictimConsent" }

\* The step is a service call (every call records itself in last; the one
\* other step, Tick, moves the clock, which no call does).
Call == now' = now

Called(op, id) == Call /\ last'.op = op /\ last'.id = id

\* The stage sequence as the design states it
StageSequence ==
  << "referral", "prosecutor_evaluation", "clinical_eligibility",
     "intervention_plan", "hearing_followups", "program_outcome" >>

\* Position of a row's stage in the sequence, from 0; -1 for no stage of it
StageIndex(row) ==
  IF row.stage \in Range(StageSequence)
    THEN (CHOOSE k \in 1..Len(StageSequence) : StageSequence[k] = row.stage) - 1
    ELSE -1

\* C1: the outcome is write-once: once a participant's outcome is set it
\* never changes, and every later advanceStage, withdraw and
\* revokeVictimConsent call on that participant fails.
C1_OutcomeWriteOnce ==
  [][\A id \in DOMAIN participants :
       participants[id].outcome # "null" =>
         /\ participants'[id].outcome = participants[id].outcome
         /\ (\E op \in Mutators : Called(op, id)) => ~last'.ok]_vars

\* C2: advanceStage right after a successful withdraw on the same
\* participant fails with "already has a final outcome" and leaves the
\* record as withdraw left it.
C2_AdvanceAfterWithdrawFails ==
  [][\A id \in DOMAIN participants :
       ( /\ last.op = "withdraw" /\ last.id = id /\ last.ok
         /\ Called("advanceStage", id) ) =>
         /\ ~last'.ok
         /\ last'.error = E_FINAL_OUTCOME
         /\ participants' = participants]_vars

\* C3: once a participant's outcome is set, no operation changes its stage.
C3_StageFrozenAfterOutcome ==
  [][\A id \in DOMAIN participants :
       participants[id].outcome # "null" =>
         participants'[id].stage = participants[id].stage]_vars

\* C4: stage progression is linear and monotonic: every stage is one of
\* the six of the sequence, a successful advanceStage moves the participant
\* from index i to index i + 1, and no step of any operation lowers the
\* index or raises it by more than one.
C4_LinearMonotonicStages ==
  [][\A id \in DOMAIN participants :
       LET i == StageIndex(participants[id])
           j == StageIndex(participants'[id]) IN
       /\ i \in 0..5 /\ j \in 0..5
       /\ j \in { i, i + 1 }
       /\ (Called("advanceStage", id) /\ last'.ok) => j = i + 1
       /\ j = i + 1 => (Called("advanceStage", id) /\ last'.ok)]_vars

\* A successful advanceStage into the fourth stage
C4_Witness ==
  /\ last.op = "advanceStage" /\ last.ok
  /\ last.id \in DOMAIN participants
  /\ participants[last.id].stage = "intervention_plan"

\* Rows on which only advanceStage was called since enrolment
OnlyAdvanced(id) == id \in DOMAIN advCalls /\ advCalls[id] >= 0

Min(a, b) == IF a < b THEN a ELSE b

\* C5 (as amended): from a newly enrolled participant, n advanceStage calls
\* leave the stage at index min(n, 5): the fifth call reaches program_outcome
\* with outcome = completed and completed_at set, and the sixth and later
\* calls fail with "cannot advance beyond the final stage".
C5_FiveAdvancesComplete ==
  \A id \in DOMAIN participants :
    OnlyAdvanced(id) =>
      LET n == advCalls[id]
          row == participants[id] IN
      /\ StageIndex(row) = Min(n, 5)
      /\ n < 5 => row.outcome = "null" /\ row.completed_at = NULL_TS
      /\ n >= 5 => /\ row.stage = "program_outcome"
                   /\ row.outcome = "completed"
                   /\ row.completed_at # NULL_TS
      /\ (last.op = "advanceStage" /\ last.id = id) =>
           IF n <= 5 THEN last.ok
           ELSE ~last.ok /\ last.error = E_FINAL_STAGE

\* The sixth advanceStage call on a newly enrolled participant has failed
C5_Witness ==
  \E id \in DOMAIN participants :
    /\ OnlyAdvanced(id) /\ advCalls[id] = 6
    /\ last.op = "advanceStage" /\ last.id = id
    /\ ~last.ok /\ last.error = E_FINAL_STAGE
    /\ participants[id].stage = "program_outcome"
    /\ participants[id].outcome = "completed"

\* C5 (as stated): six advanceStage calls from referral each succeed, the
\* sixth reaching program_outcome with outcome = completed and completed_at
\* set, and the seventh call fails with "cannot advance beyond final stage".
C5_SixAdvancesComplete ==
  \A id \in DOMAIN participants :
    (OnlyAdvanced(id) /\ last.op = "advanceStage" /\ last.id = id) =>
      LET n == advCalls[id]
          row == participants[id] IN
      /\ n <= 6 => last.ok
      /\ n = 6 => /\ row.stage = "program_outcome"
                  /\ row.outcome = "completed"
                  /\ row.completed_at # NULL_TS
      /\ n = 7 => ~last.ok /\ last.error = E_FINAL_STAGE

\* A body passes when none of the eight checks fails on it
Passes(d) == d.present /\ \A k \in 1..Len(ReasonOrder) : ~Fails(d, k)

\* C7: enroll with an input that checkEligibility finds ineligible creates no
\* participant and fails with an error carrying exactly the reasons list
\* checkEligibility returns for that input.
C7_IneligibleEnrollCreatesNothing ==
  [][( /\ Call /\ last'.op = "enroll"
       /\ last'.data.present
       /\ ~Passes(last'.data) ) =>
       /\ participants' = participants
       /\ ~last'.ok
       /\ last'.error = E_NOT_ELIGIBLE
       /\ last'.reasons # << >>
       /\ last'.reasons = checkEligibility(last'.data).reasons]_vars

\* enroll has failed on a body with a single failing check
C7_Witness ==
  /\ last.op = "enroll" /\ ~last.ok
  /\ last.error = E_NOT_ELIGIBLE
  /\ Len(last.reasons) = 1
  /\ participants = << >>

FinalOutcomes == { "completed", "withdrawn", "returned_to_court" }

\* C19: withdraw and revokeVictimConsent each fail with "Participant
\* already has a final outcome" whenever the participant's outcome is set,
\* and the failed call leaves stage, outcome, completed_at and
\* victim_consent as they were.
C19_ExitsRefusedAfterOutcome ==
  [][ \A id \in DOMAIN participants :
        \A op \in { "withdraw", "revokeVictimConsent" } :
          (participants[id].outcome \in FinalOutcomes /\ Called(op, id))
            => /\ ~last'.ok
               /\ last'.error = "Participant already has a final outcome"
               /\ participants'[id].stage = participants[id].stage
               /\ participants'[id].outcome = participants[id].outcome
               /\ participants'[id].completed_at
                    = participants[id].completed_at
               /\ participants'[id].victim_consent
                    = participants[id].victim_consent ]_vars

\* revokeVictimConsent refused on a withdrawn participant, whose consent
\* stays as enrolled
C19_Witness ==
  /\ last.op = "revokeVictimConsent"
  /\ ~last.ok
  /\ last.error = E_FINAL_OUTCOME
  /\ last.id \in DOMAIN participants
  /\ participants[last.id].outcome = "withdrawn"
  /\ participants[last.id].victim_consent = "true"

\* C20: withdraw on a participant whose outcome is unset succeeds at every
\* stage, sets outcome = withdrawn and completed_at, and leaves the stage,
\* enrolled_at and the stored eligibility inputs unchanged.
C20_WithdrawFrame ==
  [][ \A id \in DOMAIN participants :
        (participants[id].outcome = "null" /\ Called("withdraw", id))
          => /\ last'.ok
             /\ participants'[id].outcome = "withdrawn"
             /\ participants'[id].completed_at = now
             /\ participants'[id].completed_at # NULL_TS
             /\ \A f \in DOMAIN participants[id] \ { "outcome", "completed_at" } :
                  participants'[id][f] = participants[id][f] ]_vars

\* A withdrawal at hearing_followups, the last stage before the final one
C20_Witness ==
  /\ last.op = "withdraw"
  /\ last.ok
  /\ last.id \in DOMAIN participants
  /\ participants[last.id].stage = "hearing_followups"
  /\ participants[last.id].outcome = "withdrawn"
  /\ participants[last.id].enrolled_at # NULL_TS
  /\ participants[last.id].completed_at # NULL_TS

\* C21: revokeVictimConsent on a participant whose outcome is unset sets
\* the stored victim_consent to false, outcome = returned_to_court and
\* completed_at, and leaves stage and enrolled_at unchanged; no eligibility
\* evaluation takes place in the call.
C21_RevokeFrame ==
  [][ \A id \in DOMAIN participants :
        (participants[id].outcome = "null"
           /\ Called("revokeVictimConsent", id))
          => /\ last'.ok
             /\ participants'[id].victim_consent = "false"
             /\ participants'[id].outcome = "returned_to_court"
             /\ participants'[id].completed_at = now
             /\ participants'[id].completed_at # NULL_TS
             /\ participants'[id].stage = participants[id].stage
             /\ participants'[id].enrolled_at = participants[id].enrolled_at
             /\ verdict' = verdict
             /\ input' = input ]_vars

\* Consent revoked past referral for an offence that required it: the
\* stored inputs no longer pass the evaluator, the stage stays
C21_Witness ==
  /\ last.op = "revokeVictimConsent"
  /\ last.ok
  /\ last.id \in DOMAIN participants
  /\ participants[last.id].offence_category = "domestic_violence"
  /\ participants[last.id].victim_consent = "false"
  /\ participants[last.id].outcome = "returned_to_court"
  /\ participants[last.id].stage = "clinical_eligibility"
  /\ participants[last.id].enrolled_at # NULL_TS

UnrecognizedStages == { "", "null", "Referral", "archived" }

\* C22: advanceStage on a participant at the final stage (program_outcome),
\* or at a stage that is none of the sequence, fails with "Cannot advance
\* beyond the final stage" and leaves the participant record unchanged.
C22_NoAdvanceBeyondFinalStage ==
  [][ /\ \A id \in DOMAIN participants :
           (StageIndex(participants[id]) \in { -1, 5 }
              /\ Called("advanceStage", id))
             => /\ ~last'.ok
                /\ last'.error = "Cannot advance beyond the final stage"
                /\ participants' = participants
      /\ \A id \in DOMAIN participants, s \in UnrecognizedStages :
           CannotAdvance([participants[id] EXCEPT !.stage = s]) ]_vars

C22_Witness ==
  /\ last.op = "advanceStage"
  /\ ~last.ok
  /\ last.error = E_FINAL_STAGE
  /\ last.id \in DOMAIN participants
  /\ participants[last.id].stage = "program_outcome"

\* C23: enrolled_at is set exactly once: by the advanceStage that moves the
\* participant from referral into prosecutor_evaluation, to the time of that
\* call; in every later state it keeps that value.
C23_EnrolledAtSetOnce ==
  [][ \A id \in DOMAIN participants :
        LET before == participants[id]
            after == participants'[id] IN
        /\ before.enrolled_at # NULL_TS
             => after.enrolled_at = before.enrolled_at
        /\ after.enrolled_at # before.enrolled_at
             => /\ Called("advanceStage", id)
                /\ last'.ok
                /\ before.stage = "referral"
                /\ after.stage = "prosecutor_evaluation"
        /\ (Called("advanceStage", id) /\ last'.ok
              /\ before.stage = "referral")
             => after.enrolled_at = now /\ after.enrolled_at # NULL_TS ]_vars

\* enrolled_at still the time of the first transition after later
\* transitions and a withdrawal at a later time
C23_Witness ==
  \E id \in DOMAIN participants :
    /\ participants[id].enrolled_at = 1
    /\ participants[id].completed_at = 2
    /\ participants[id].outcome = "withdrawn"
    /\ StageIndex(participants[id]) >= 2

\* C24: a participant whose stage is program_outcome has outcome =
\* completed and completed_at set: the advanceStage that enters
\* program_outcome sets both, and no later step changes them.
C24_FinalStageIsCompleted ==
  [][ \A id \in DOMAIN participants' :
        participants'[id].stage = "program_outcome"
          => /\ participants'[id].outcome = "completed"
             /\ participants'[id].completed_at # NULL_TS
             /\ id \in DOMAIN participants
             /\ IF participants[id].stage = "program_outcome"
                  THEN /\ participants'[id].outcome = participants[id].outcome
                       /\ participants'[id].completed_at
                            = participants[id].completed_at
                  ELSE /\ Called("advanceStage", id)
                       /\ participants'[id].completed_at = now ]_vars

\* A completed participant on which a later withdraw was refused
C24_Witness ==
  /\ last.op = "withdraw"
  /\ ~last.ok
  /\ last.id \in DOMAIN participants
  /\ participants[last.id].stage = "program_outcome"
  /\ participants[last.id].outcome = "completed"
  /\ participants[last.id].completed_at = 1
  /\ now = 2

C27_SubRecordsDoNotAffectParticipant ==
  [][ \A id \in DOMAIN participants :
        /\ (Call /\ last'.op \in { "createInterventionPlan", "addFollowUp" })
             => /\ participants'[id].stage = participants[id].stage
                /\ participants'[id].outcome = participants[id].outcome
                /\ participants'[id].enrolled_at
                     = participants[id].enrolled_at
                /\ participants'[id].completed_at
                     = participants[id].completed_at
        /\ Called("advanceStage", id)
             => (last'.ok <=> StageIndex(participants[id]) \in 0..4)
        /\ Called("withdraw", id)
             => (last'.ok <=> participants[id].outcome = "null")
        /\ Called("revokeVictimConsent", id)
             => (last'.ok <=> participants[id].outcome = "null") ]_vars

\* A withdrawal accepted on a participant that has a plan and a follow-up
C27_Witness ==
  /\ last.op = "withdraw"
  /\ last.ok
  /\ Len(plans) = 1
  /\ Len(followUps) = 1
  /\ plans[1].participant_id = last.id
  /\ followUps[1].participant_id = last.id

\* C28: advanceStage, withdraw, revokeVictimConsent, createInterventionPlan
\* and addFollowUp, called with an id no participant has, each fail with
\* "PAJ-SM+ participant not found" and add or change no row of any table.
C28_UnknownParticipantNotFound ==
  [][ \A id \in RequestIds \ DOMAIN participants :
        \A op \in { "advanceStage", "withdraw", "revokeVictimConsent",
                    "createInterventionPlan", "addFollowUp" } :
          Called(op, id)
            => /\ ~last'.ok
               /\ last'.error = "PAJ-SM+ participant not found"
               /\ participants' = participants
               /\ plans' = plans
               /\ followUps' = followUps ]_vars

\* addFollowUp on an unknown id while another participant is at
\* hearing_followups
C28_Witness ==
  /\ last.op = "addFollowUp"
  /\ ~last.ok
  /\ last.error = E_NOT_FOUND
  /\ last.id \notin DOMAIN participants
  /\ followUps = << >>
  /\ \E id \in DOMAIN participants :
       participants[id].stage = "hearing_followups"

\* C29: the transitions of advanceStage into clinical_eligibility,
\* intervention_plan and hearing_followups change the stage only:
\* enrolled_at, completed_at, outcome and the stored eligibility inputs stay.
C29_MiddleTransitionsChangeStageOnly ==
  [][ \A id \in DOMAIN participants :
        (Called("advanceStage", id) /\ last'.ok
           /\ participants'[id].stage \in
                { "clinical_eligibility", "intervention_plan",
                  "hearing_followups" })
          => \A f \in DOMAIN participants[id] \ { "stage" } :
               participants'[id][f] = participants[id][f] ]_vars

\* Into hearing_followups at a later time than the enrolment stamp
C29_Witness ==
  /\ last.op = "advanceStage"
  /\ last.ok
  /\ last.id \in DOMAIN participants
  /\ participants[last.id].stage = "hearing_followups"
  /\ participants[last.id].enrolled_at = 1
  /\ participants[last.id].completed_at = NULL_TS
  /\ participants[last.id].outcome = "null"
  /\ now = 2

\* C30: revokeVictimConsent succeeds for every participant whose outcome is
\* unset, whatever its offence category and stored victim_consent, and the
\* participant ends with outcome = returned_to_court; this includes a
\* participant admitted for an unrestricted offence with no consent given.
C30_RevokeUnconditional ==
  [][ \A id \in DOMAIN participants :
        Called("revokeVictimConsent", id)
          => /\ last'.ok <=> participants[id].outcome = "null"
             /\ last'.ok => participants'[id].outcome = "returned_to_court"
    ]_vars

\* A theft participant enrolled with no victim_consent, returned to court
C30_Witness ==
  /\ last.op = "revokeVictimConsent"
  /\ last.ok
  /\ last.id \in DOMAIN participants
  /\ participants[last.id].offence_category = "theft"
  /\ participants[last.id].prosecution_mode = "indictment"
  /\ participants[last.id].outcome = "returned_to_court"
  /\ participants[last.id].victim_consent = "false"

\* C32: each participant's stage is one of the six stages of the sequence
\* and its outcome is unset or one of completed, withdrawn,
\* returned_to_court.
C32_StageAndOutcomeDomains ==
  \A id \in DOMAIN participants :
    /\ participants[id].stage \in Range(StageSequence)
    /\ participants[id].outcome \in { "null" } \cup FinalOutcomes

C32_Witness ==
  \E id \in DOMAIN participants :
    /\ participants[id].stage = "hearing_followups"
    /\ participants[id].outcome = "withdrawn"

EligibilityInputFields ==
  { "vulnerabilities", "offence_category", "prosecution_mode",
    "victim_consent", "accepts_responsibility", "is_voluntary",
    "waives_delay", "criminally_fit" }

\* C33: the eligibility inputs stored at enrolment are frozen: no step of
\* advanceStage, withdraw, createInterventionPlan or addFollowUp changes
\* any of them; the one step that does is a revokeVictimConsent, and it
\* changes victim_consent alone.
C33_EligibilityInputsFrozen ==
  [][ \A id \in DOMAIN participants :
        \A f \in EligibilityInputFields :
          participants'[id][f] # participants[id][f]
            => /\ Called("revokeVictimConsent", id)
               /\ f = "victim_consent" ]_vars

\* A participant advanced, given a plan and a follow-up, and withdrawn,
\* with the consent it was enrolled with
C33_Witness ==
  \E id \in DOMAIN participants :
    /\ participants[id].offence_category = "domestic_violence"
    /\ participants[id].victim_consent = "true"
    /\ participants[id].outcome = "withdrawn"
    /\ participants[id].stage = "hearing_followups"
    /\ Len(plans) = 1
    /\ Len(followUps) = 1

\* C34: a participant's outcome is set if and only if its completed_at is
\* set.
C34_OutcomeIffCompletedAt ==
  \A id \in DOMAIN participants :
    participants[id].outcome # "null"
      <=> participants[id].completed_at # NULL_TS

C34_Witness ==
  \E id \in DOMAIN participants :
    /\ participants[id].outcome = "returned_to_court"
    /\ participants[id].completed_at = 2

\* C35: a participant's enrolled_at is set if and only if its stage is past
\* referral; a participant withdrawn or returned to court at referral has
\* completed_at set and enrolled_at unset.
C35_EnrolledAtIffPastReferral ==
  \A id \in DOMAIN participants :
    /\ participants[id].enrolled_at # NULL_TS
         <=> StageIndex(participants[id]) >= 1
    /\ (participants[id].stage = "referral"
          /\ participants[id].outcome \in { "withdrawn", "returned_to_court" })
         => /\ participants[id].completed_at # NULL_TS
            /\ participants[id].enrolled_at = NULL_TS

C35_Witness ==
  \E id \in DOMAIN participants :
    /\ participants[id].stage = "referral"
    /\ participants[id].outcome = "withdrawn"
    /\ participants[id].completed_at # NULL_TS
    /\ participants[id].enrolled_at = NULL_TS

\* C36: a participant whose outcome is completed is at program_outcome, a
\* participant whose outcome is withdrawn or returned_to_court is not, and
\* outcome becomes completed only in the advanceStage that enters
\* program_outcome.
C36_CompletedOnlyAtFinalStage ==
  [][ \A id \in DOMAIN participants' :
        /\ participants'[id].outcome = "completed"
             => participants'[id].stage = "program_outcome"
        /\ participants'[id].outcome \in { "withdrawn", "returned_to_court" }
             => participants'[id].stage # "program_outcome"
        /\ (id \in DOMAIN participants
              /\ participants[id].outcome # "completed"
              /\ participants'[id].outcome = "completed")
             => /\ Called("advanceStage", id)
                /\ participants[id].stage = "hearing_followups" ]_vars

\* A participant withdrawn on the last stage before program_outcome
C36_Witness ==
  /\ last.op = "withdraw"
  /\ last.ok
  /\ last.id \in DOMAIN participants
  /\ participants[last.id].outcome = "withdrawn"
  /\ participants[last.id].stage = "hearing_followups"
  /\ participants[last.id].completed_at = 2

\* C40: whether createInterventionPlan and addFollowUp succeed depends on
\* the participant's stage, not on its outcome: a participant withdrawn or
\* returned to court at intervention_plan (at hearing_followups) still
\* takes new plans (dated follow-ups).
C40_SubRecordsIgnoreOutcome ==
  [][ \A id \in DOMAIN participants :
        /\ (Called("createInterventionPlan", id)
              /\ participants[id].outcome \in FinalOutcomes)
             => (last'.ok <=> participants[id].stage = "intervention_plan")
        /\ (Called("addFollowUp", id)
              /\ participants[id].outcome \in FinalOutcomes
              /\ last'.data.follow_up_date # "undefined")
             => (last'.ok <=> participants[id].stage = "hearing_followups")
    ]_vars

\* A plan created for a participant already returned to court
C40_Witness ==
  /\ last.op = "createInterventionPlan"
  /\ last.ok
  /\ Len(plans) = 1
  /\ plans[1].participant_id = last.id
  /\ participants[last.id].outcome = "returned_to_court"
  /\ participants[last.id].stage = "intervention_plan"

\* =================================================================
\* Properties of overlapping requests (under ConcSpec)
\* =================================================================

\* Request c sends its UPDATE and returns in this step
Commits(c) == calls[c].op # Idle.op /\ calls'[c].op = Idle.op

\* C6: an advanceStage and a withdraw that overlap on one participant do not
\* both succeed against a precondition the other has made stale: withdraw
\* does not commit once the advanceStage has set the outcome it read as
\* unset, and advanceStage does not commit once the withdraw has set it.
C6_NoCommitOnStalePrecondition ==
  [][\A c \in Callers :
       Commits(c) =>
         LET row == participants[calls[c].id] IN
         /\ calls[c].op = "withdraw" => row.outcome # "completed"
         /\ calls[c].op = "advanceStage" =>
              ~(calls[c].outcome = "null" /\ row.outcome = "withdrawn")]_vars

\* C37: no successful advanceStage is lost, also when several advanceStage
\* calls on one participant overlap: every advanceStage that returns success
\* leaves the stored stage one index above what it was just before its
\* UPDATE, so the stage index counts the successful calls.
C37_EverySuccessfulAdvanceCounts ==
  [][\A c \in Callers :
       (Commits(c) /\ calls[c].op = "advanceStage") =>
         StageIndex(participants'[calls[c].id]) =
           StageIndex(participants[calls[c].id]) + 1]_vars

\* C38: at most one call among the withdraw and revokeVictimConsent calls on
\* a participant ever returns success, also when the two overlap: none of
\* them commits on a row that already carries withdrawn or returned_to_court.
C38_AtMostOneExitSucceeds ==
  [][\A c \in Callers :
       (Commits(c) /\ calls[c].op \in { "withdraw", "revokeVictimConsent" }) =>
         participants[calls[c].id].outcome
           \notin { "withdrawn", "returned_to_court" }]_vars

\* C39: a plan is inserted only at a moment when the stored stage of its
\* participant is intervention_plan, and a follow-up only when it is
\* hearing_followups, also when an advanceStage on the participant runs
\* between the stage check and the INSERT.
C39_SubRecordInsertedAtItsStage ==
  [][/\ Len(plans') > Len(plans) =>
          participants[plans'[Len(plans')].participant_id].stage
            = INTERVENTION_PLAN
     /\ Len(followUps') > Len(followUps) =>
          participants[followUps'[Len(followUps')].participant_id].stage
            = HEARING_FOLLOWUPS]_vars

====
